---- MODULE Spec2Model ----
(***************************************************************************)
(* Model of amigo/lib/reporter.py: class Reporter.                         *)
(*                                                                         *)
(* Two specifications share the state:                                     *)
(*   SpecSetup  Reporter.__init__ / _setup, one step per clock read, so    *)
(*              that the clock can pass midnight between two reads;        *)
(*   Spec       Reporter.run() on a constructed Reporter, one step per     *)
(*              loop position of _fetch_projects and                       *)
(*              _fetch_attributes_for_projects.                            *)
(*                                                                         *)
(* Dates are day numbers (util.get_date formats a date; the day number is  *)
(* what the formatted string identifies).  A path is the tuple of its      *)
(* components, None is the empty tuple.                                    *)
(***************************************************************************)
EXTENDS Integers, Sequences, FiniteSets, TLC

VARIABLES
    pc,                 \* position of the control flow
    clock,              \* the system date, as a day number
    dirs,               \* dates d for which reports_dir/<d> exists on disk
    reports,            \* self.reports
    previous_reports,   \* self.previous_reports
    day,                \* loop variable of the search in _setup
    warnings,           \* self.warnings
    database,           \* self.database: table name -> rows in insertion order
    files,              \* report files on disk: path -> JSON content
    clients,            \* every GCPWrapper constructed, in construction order
    number_projects,    \* run(): number_projects
    projList,           \* the rows _fetch_attributes_for_projects iterates
    pi,                 \* index of the project loop
    ri,                 \* index of the resource-type loop
    ai,                 \* index of the attribute loop
    project_name,       \* _fetch_attributes_for_projects: project_name
    result,             \* what run() returned last
    runs,               \* number of run() invocations
    fetches,            \* number of project-scoped fetch_attribute calls
    runBase,            \* history: Len(clients) when run() was invoked
    mark                \* history: warnings, files, database when the
                        \* current project's iteration began

setupVars == <<clock, dirs, reports, previous_reports, day>>
storeVars == <<warnings, database, files, clients>>
loopVars == <<number_projects, projList, pi, ri, ai, project_name>>
histVars == <<result, runs, fetches, runBase, mark>>
vars == <<pc, setupVars, storeVars, loopVars, histVars>>

----------------------------------------------------------------------------
(* Bounds of the model *)

MaxClockAdvance == 1    \* midnights the clock may pass during _setup
MaxProjects == 2        \* length of a discovery result
MaxRuns == 2            \* run() invocations on one Reporter
MaxFetches == 4         \* project-scoped fetch_attribute calls in all

----------------------------------------------------------------------------
(* Constants and inputs *)

days_back == 30

Today == 0

None == <<>>

NoProject == "None"

\* Days before Today whose report directory may exist when the Reporter is
\* constructed: both ends of the look-back window and the day after it.
PriorDays == {1, 2, days_back - 1, days_back, days_back + 1}

ProjectIds == {"proj-a", "proj-b"}

\* config["gcp_attributes"], in configuration order.
gcp_attributes ==
    << [resource |-> "compute", items |-> <<"firewalls", "networks">>],
       [resource |-> "iam", items |-> <<>>] >>

AttributeTables == {"firewalls", "networks"}

Tables == {"projects"} \cup AttributeTables

\* What one project-scoped fetch_attribute call can do: the data it returns
\* and whether the client adds a warning to its own list.
FetchOutcomes ==
    { [data |-> <<>>, warned |-> FALSE],
      [data |-> <<>>, warned |-> TRUE],
      [data |-> <<"x">>, warned |-> FALSE],
      [data |-> <<"x", "y">>, warned |-> FALSE],
      [data |-> <<"y">>, warned |-> TRUE] }

\* Discovery results: sequences of projects with pairwise distinct projectId.
RECURSIVE DistinctSeqs(_, _)
DistinctSeqs(S, n) ==
    IF n = 0 THEN {<<>>}
    ELSE {<<>>} \cup
         UNION {{<<x>> \o s : s \in DistinctSeqs(S \ {x}, n - 1)} : x \in S}

ProjectLists ==
    {[i \in 1..Len(s) |-> [projectId |-> s[i]]] :
        s \in DistinctSeqs(ProjectIds, MaxProjects)}

----------------------------------------------------------------------------
(* Helpers: util and Database, whose code is outside reporter.py *)

\* util.get_date(day): the date `day` days before the clock's date.
get_date(now, d) == now - d

\* util.get_full_path(base, name)
get_full_path(base, name) == base \o name

ReportsDir == <<"reports_dir">>

\* util.is_path(path)
is_path(ds, path) == Len(path) = 2 /\ path[2] \in ds

\* Database.insert(table, row)
insert(db, table, row) == [db EXCEPT ![table] = Append(@, row)]

\* Database.get_table(table)
get_table(db, table) == db[table]

EmptyDatabase == [t \in Tables |-> <<>>]

Range(s) == {s[i] : i \in 1..Len(s)}

IsPrefix(s, t) == Len(s) <= Len(t) /\ SubSeq(t, 1, Len(s)) = s

RECURSIVE Flatten(_)
Flatten(ss) == IF ss = <<>> THEN <<>> ELSE Head(ss) \o Flatten(Tail(ss))

----------------------------------------------------------------------------
(* Reporter._setup *)

\* Line 53: the path probed in iteration `d`, with the clock at `now`.
ProbePath(now, d) == get_full_path(ReportsDir, <<get_date(now, d)>>)

\* Line 52: range(1, days_back) has a next value after d.
HasNextDay(d) == d + 1 < days_back

\* Lines 52-58 with a steady clock: previous_reports and day after the loop.
RECURSIVE SearchPrevious(_, _, _)
SearchPrevious(now, ds, d) ==
    IF is_path(ds, ProbePath(now, d)) \/ ~HasNextDay(d)
    THEN [previous_reports |-> ProbePath(now, d), day |-> d]
    ELSE SearchPrevious(now, ds, d + 1)

\* Lines 45-48: name the current report directory after the clock's date and
\* create it.
SetCurrentReport ==
    /\ pc = "current"
    /\ reports' = get_full_path(ReportsDir, <<get_date(clock, 0)>>)
    /\ dirs' = dirs \cup {get_date(clock, 0)}
    /\ day' = 1
    /\ pc' = "search"
    /\ UNCHANGED <<clock, previous_reports, storeVars, loopVars, histVars>>

\* Lines 52-58: one iteration of the search loop; each reads the clock.
Probe ==
    /\ pc = "search"
    /\ previous_reports' = ProbePath(clock, day)
    /\ IF is_path(dirs, ProbePath(clock, day))
       THEN /\ pc' = "database"
            /\ day' = day
       ELSE IF HasNextDay(day)
            THEN /\ pc' = "search"
                 /\ day' = day + 1
            ELSE /\ pc' = "database"
                 /\ day' = day
    /\ UNCHANGED <<clock, dirs, reports, storeVars, loopVars, histVars>>

\* Lines 60-70: the database and the results path.
FinishSetup ==
    /\ pc = "database"
    /\ database' = EmptyDatabase
    /\ pc' = "idle"
    /\ UNCHANGED <<setupVars, warnings, files, clients, loopVars, histVars>>

\* The system clock passes midnight while _setup searches.
Tick ==
    /\ pc = "search"
    /\ clock < Today + MaxClockAdvance
    /\ clock' = clock + 1
    /\ UNCHANGED <<pc, dirs, reports, previous_reports, day, storeVars,
                   loopVars, histVars>>

NoMark == [warnings |-> <<>>, files |-> <<>>, database |-> EmptyDatabase]

\* Lines 20-32: the fields __init__ sets before it calls _setup.
InitSetup ==
    /\ pc = "current"
    /\ clock = Today
    /\ dirs \in SUBSET {Today - d : d \in PriorDays}
    /\ reports = None
    /\ previous_reports = None
    /\ day = 0
    /\ warnings = <<>>
    /\ database = EmptyDatabase
    /\ files = <<>>
    /\ clients = <<>>
    /\ number_projects = 0
    /\ projList = <<>>
    /\ pi = 0
    /\ ri = 0
    /\ ai = 0
    /\ project_name = NoProject
    /\ result = None
    /\ runs = 0
    /\ fetches = 0
    /\ runBase = 0
    /\ mark = NoMark

NextSetup ==
    \/ SetCurrentReport
    \/ Probe
    \/ FinishSetup
    \/ Tick

SpecSetup == InitSetup /\ [][NextSetup]_vars

----------------------------------------------------------------------------
(* Reporter.run *)

\* Line 91: project_name + "@" + attribute_item + '.json' under self.reports.
ReportFile(rep, project, item) ==
    get_full_path(rep, <<project, "@", item, ".json">>)

\* Line 93: util.save_to_json_file(attribute_data[0], output_file).
RecordReport(fs, rep, item, data, project) ==
    (ReportFile(rep, project, item) :> data[1]) @@ fs

\* RecordToDb with the last element in place of the first.
RecordLastToDb(db, item, data) == insert(db, item, data[Len(data)])

\* Line 79: self.database.insert(attribute_item, attribute_data[0]).
RecordToDb(db, item, data) == insert(db, item, data[1])

\* InsertProjects stopping after the first project.
InsertFirstProject(db, projects) ==
    IF projects = <<>> THEN db ELSE insert(db, "projects", Head(projects))

\* Lines 110-111: insert every discovered project, in order.
RECURSIVE InsertProjects(_, _)
InsertProjects(db, projects) ==
    IF projects = <<>> THEN db
    ELSE InsertProjects(insert(db, "projects", Head(projects)), Tail(projects))

\* ExtendWarnings assigning the client's list in place of extending.
ReplaceWarnings(w, gcpWarnings) ==
    IF gcpWarnings # <<>> THEN gcpWarnings ELSE w

\* Lines 107-108 and 140-141: merge a client's warnings.
ExtendWarnings(w, gcpWarnings) ==
    IF gcpWarnings # <<>> THEN w \o gcpWarnings ELSE w

\* Line 135: if attribute_data.
Truthy(data) == data # <<>>

\* ReportsAfterFetch without the test of line 135: an empty result is saved
\* as an empty document.
ReportsAfterFetchUnguarded(fs, rep, item, data, project) ==
    (ReportFile(rep, project, item) :> (IF data = <<>> THEN "[]" ELSE data[1]))
        @@ fs

\* Lines 135-136: the report files after a fetch that returned `data`.
ReportsAfterFetch(fs, rep, item, data, project) ==
    IF Truthy(data) THEN RecordReport(fs, rep, item, data, project) ELSE fs

\* Lines 135 and 137: the database after a fetch that returned `data`.
DbAfterFetch(db, item, data) ==
    IF Truthy(data) THEN RecordToDb(db, item, data) ELSE db

\* NextItem leaving the attribute loop once the client has a warning.
NextItemUnlessWarned(i, gcp) ==
    IF gcp.warnings # <<>> THEN Len(gcp.calls) + 3 ELSE i + 1

\* Line 132: the attribute loop goes on to the next name of the list.
NextItem(i, gcp) == i + 1

\* The warning a client adds to its list in its n-th call.
Warning(c, n) == [client |-> c, call |-> n]

\* A GCPWrapper: the resource type it was built for, the fetch_attribute
\* calls made on it, its warnings list.
NewGcp(resource) == [resource |-> resource, calls |-> <<>>, warnings |-> <<>>]

\* gcp.fetch_attribute(item, project=project) returning `data`.
Called(gcp, c, item, project, data, warned) ==
    [gcp EXCEPT
        !.calls = Append(@, [item |-> item, project |-> project,
                             data |-> data, warned |-> warned]),
        !.warnings = IF warned THEN Append(@, Warning(c, Len(gcp.calls) + 1))
                     ELSE @]

\* Lines 152 and 97-113: run() calls _fetch_projects.
FetchProjects ==
    /\ pc = "idle"
    /\ runs < MaxRuns
    /\ fetches < MaxFetches
    /\ \E projects \in ProjectLists, warned \in BOOLEAN :
        LET c == Len(clients) + 1
            gcp == Called(NewGcp("cloudresourcemanager"), c, "projects",
                          NoProject, projects, warned)
        IN /\ clients' = Append(clients, gcp)
           /\ warnings' = ExtendWarnings(warnings, gcp.warnings)
           /\ database' = InsertProjects(database, projects)
           /\ number_projects' = Len(projects)
    /\ runs' = runs + 1
    /\ runBase' = Len(clients)
    /\ pc' = "fetched"
    /\ UNCHANGED <<setupVars, files, projList, pi, ri, ai, project_name,
                   result, fetches, mark>>

\* BeginCollect iterating the discovery result in place of the stored rows.
BeginCollectFromDiscovery ==
    /\ pc = "fetched"
    /\ projList' = clients[Len(clients)].calls[1].data
    /\ pi' = 1
    /\ pc' = "project"
    /\ UNCHANGED <<setupVars, storeVars, number_projects, ri, ai,
                   project_name, histVars>>

\* Lines 154 and 122-124: _fetch_attributes_for_projects reads the stored
\* projects.
BeginCollect ==
    /\ pc = "fetched"
    /\ projList' = get_table(database, "projects")
    /\ pi' = 1
    /\ pc' = "project"
    /\ UNCHANGED <<setupVars, storeVars, number_projects, ri, ai,
                   project_name, histVars>>

\* Lines 124-125: the next stored project.
NextProject ==
    /\ pc = "project"
    /\ pi <= Len(projList)
    /\ project_name' = projList[pi].projectId
    /\ ri' = 1
    /\ mark' = [warnings |-> warnings, files |-> files, database |-> database]
    /\ pc' = "resource"
    /\ UNCHANGED <<setupVars, storeVars, number_projects, projList, pi, ai,
                   result, runs, fetches, runBase>>

\* NewClient constructing one client per project, used for every resource
\* type.
NewClientPerProject ==
    /\ pc = "resource"
    /\ ri <= Len(gcp_attributes)
    /\ clients' = IF ri = 1
                  THEN Append(clients, NewGcp(gcp_attributes[ri].resource))
                  ELSE clients
    /\ ai' = 1
    /\ pc' = "item"
    /\ UNCHANGED <<setupVars, warnings, database, files, number_projects,
                   projList, pi, ri, project_name, histVars>>

\* Lines 128-129: a client for the next resource type.
NewClient ==
    /\ pc = "resource"
    /\ ri <= Len(gcp_attributes)
    /\ clients' = Append(clients, NewGcp(gcp_attributes[ri].resource))
    /\ ai' = 1
    /\ pc' = "item"
    /\ UNCHANGED <<setupVars, warnings, database, files, number_projects,
                   projList, pi, ri, project_name, histVars>>

\* Lines 132-137: fetch the next attribute and record it when it is truthy.
FetchAttribute ==
    /\ pc = "item"
    /\ ai <= Len(gcp_attributes[ri].items)
    /\ fetches < MaxFetches
    /\ \E out \in FetchOutcomes :
        LET c == Len(clients)
            item == gcp_attributes[ri].items[ai]
            gcp == Called(clients[c], c, item, project_name, out.data,
                          out.warned)
        IN /\ clients' = [clients EXCEPT ![c] = gcp]
           /\ files' = ReportsAfterFetch(files, reports, item, out.data,
                                         project_name)
           /\ database' = DbAfterFetch(database, item, out.data)
           /\ ai' = NextItem(ai, gcp)
    /\ fetches' = fetches + 1
    /\ UNCHANGED <<pc, setupVars, warnings, number_projects, projList, pi, ri,
                   project_name, result, runs, runBase, mark>>

\* Lines 139-141: the attribute list is exhausted; merge the client's
\* warnings and go on to the next resource type.
MergeWarnings ==
    /\ pc = "item"
    /\ ai > Len(gcp_attributes[ri].items)
    /\ warnings' = ExtendWarnings(warnings, clients[Len(clients)].warnings)
    /\ ri' = ri + 1
    /\ pc' = "resource"
    /\ UNCHANGED <<setupVars, database, files, clients, number_projects,
                   projList, pi, ai, project_name, histVars>>

\* Line 128: the resource types are exhausted; on to the next project.
EndProject ==
    /\ pc = "resource"
    /\ ri > Len(gcp_attributes)
    /\ pi' = pi + 1
    /\ pc' = "project"
    /\ UNCHANGED <<setupVars, storeVars, number_projects, projList, ri, ai,
                   project_name, histVars>>

\* Lines 143 and 156-158: the projects are exhausted; run() returns.
Return ==
    /\ pc = "project"
    /\ pi > Len(projList)
    /\ result' = <<reports, previous_reports>>
    /\ pc' = "idle"
    /\ UNCHANGED <<setupVars, storeVars, loopVars, runs, fetches, runBase,
                   mark>>

\* Existing report directories when the Reporter of Spec is constructed:
\* none, or yesterday's.
RunDirChoices == {{}, {Today - 1}}

\* The state after Reporter(config): __init__ and _setup, the clock steady.
Init ==
    /\ pc = "idle"
    /\ clock = Today
    /\ \E ds \in RunDirChoices :
        /\ dirs = ds \cup {get_date(Today, 0)}
        /\ previous_reports = SearchPrevious(Today, dirs, 1).previous_reports
        /\ day = SearchPrevious(Today, dirs, 1).day
    /\ reports = get_full_path(ReportsDir, <<get_date(Today, 0)>>)
    /\ warnings = <<>>
    /\ database = EmptyDatabase
    /\ files = <<>>
    /\ clients = <<>>
    /\ number_projects = 0
    /\ projList = <<>>
    /\ pi = 0
    /\ ri = 0
    /\ ai = 0
    /\ project_name = NoProject
    /\ result = None
    /\ runs = 0
    /\ fetches = 0
    /\ runBase = 0
    /\ mark = NoMark

Next ==
    \/ FetchProjects
    \/ BeginCollect
    \/ NextProject
    \/ NewClient
    \/ FetchAttribute
    \/ MergeWarnings
    \/ EndProject
    \/ Return

Spec == Init /\ [][Next]_vars

----------------------------------------------------------------------------
(* Vocabulary of the properties *)

Min(S) == CHOOSE x \in S : \A y \in S : x <= y

\* The date the current report directory is named after.
CurrentDate == reports[2]

\* The days of the window 1..n whose report directory existed before the
\* current one.
FoundDays(n) == {d \in 1..n : (CurrentDate - d) \in dirs}

\* _setup read the same date from the clock every time.
SteadyClock == clock = CurrentDate

\* run() has returned and no other run() is under way.
Completed == pc = "idle" /\ runs > 0

\* Every fetch_attribute call so far, as (client, call) index pairs, in the
\* order the calls were made on clients from..to.
CallRefs(from, to) ==
    Flatten([k \in 1..(to - from + 1) |->
        [j \in 1..Len(clients[from + k - 1].calls) |->
            [client |-> from + k - 1, call |-> j]]])

CallOf(ref) == clients[ref.client].calls[ref.call]

\* The project-scoped calls of every run so far, in order.
AttrCalls ==
    SelectSeq(Flatten([k \in 1..Len(clients) |-> clients[k].calls]),
              LAMBDA c : c.project # NoProject)

NonEmptyCalls == SelectSeq(AttrCalls, LAMBDA c : c.data # <<>>)

\* The project-scoped calls of the last run() invoked.
RunRefs == CallRefs(runBase + 2, Len(clients))

\* The (project, attribute) pairs in the order run() has to fetch them for
\* the stored projects `rows`.
ExpectedOrder(rows) ==
    Flatten([i \in 1..Len(rows) |->
        Flatten([r \in 1..Len(gcp_attributes) |->
            [a \in 1..Len(gcp_attributes[r].items) |->
                <<rows[i].projectId, gcp_attributes[r].items[a]>>]])])

\* The clients of the project whose iteration has just ended.
ProjectClients ==
    SubSeq(clients, Len(clients) - Len(gcp_attributes) + 1, Len(clients))

ProjectEnded == pc = "project" /\ pi > 1

AllEmpty(gs) ==
    \A k \in 1..Len(gs) : \A j \in 1..Len(gs[k].calls) :
        gs[k].calls[j].data = <<>>

UniqueProjectIds(rows) ==
    \A i, j \in 1..Len(rows) : rows[i].projectId = rows[j].projectId => i = j

----------------------------------------------------------------------------
(* C1..C10 *)

\* C1: after construction with a steady clock, if a report directory exists
\* for some day d in 1..days_back (inclusive) before the current date, then
\* previous_reports is the directory of the smallest such d.
C1_NearestDayInWindow ==
    (pc = "idle" /\ SteadyClock /\ FoundDays(days_back) # {}) =>
        previous_reports = ProbePath(CurrentDate, Min(FoundDays(days_back)))

\* C2: when run() returns on a Reporter constructed with no report directory
\* for any day of the look-back window, previous_reports is None, as it has
\* been since construction, and run() returns (reports, None);
\* previous_reports is never a path that does not exist.
C2_AbsentWhenNoneFound ==
    (Completed /\ SteadyClock) =>
        /\ FoundDays(days_back) = {} =>
              /\ previous_reports = None
              /\ result = <<reports, None>>
        /\ previous_reports # None => is_path(dirs, previous_reports)

\* C8: whatever the clock does during _setup, the date of the directory
\* probed in iteration `day` is the current report directory's date minus
\* `day`, so previous_reports ends as that date's directory and is never the
\* current report directory.
C8_SingleToday ==
    pc \in {"database", "idle"} =>
        /\ previous_reports = ProbePath(CurrentDate, day)
        /\ previous_reports # reports

\* C3 as stated: after _fetch_projects for a discovery result of N projects
\* the "projects" table holds exactly N rows with pairwise distinct
\* projectId, in every run().
C3_ExactlyNRows ==
    pc = "fetched" =>
        /\ Len(get_table(database, "projects")) = number_projects
        /\ UniqueProjectIds(get_table(database, "projects"))

\* C3 amended: _fetch_projects appends the N discovered projects, in
\* discovery order, to the rows the "projects" table already holds; when the
\* table was empty before the step it then holds exactly N rows with
\* pairwise distinct projectId.
C3_AppendsNRows ==
    [][(pc = "idle" /\ pc' = "fetched") =>
        LET before == get_table(database, "projects")
            after == get_table(database', "projects")
            found == clients'[Len(clients')].calls[1].data
        IN /\ after = before \o found
           /\ number_projects' = Len(found)
           /\ before = <<>> =>
                 /\ Len(after) = number_projects'
                 /\ UniqueProjectIds(after)]_vars

C3_Witness ==
    /\ pc = "fetched"
    /\ number_projects = 2
    /\ Len(get_table(database, "projects")) = 2

\* C4: the report files on disk are exactly the files of the
\* (project, attribute) pairs whose fetch returned a non-empty sequence, each
\* holding the first element of the last such sequence, and every attribute
\* table holds exactly one row per non-empty fetch of that attribute, the
\* first element of the returned sequence, in fetch order.
C4_OneFileOneRowPerFetch ==
    LET ne == NonEmptyCalls
        FileOf(c) == ReportFile(reports, c.project, c.item)
    IN /\ DOMAIN files = {FileOf(c) : c \in Range(ne)}
       /\ \A k \in 1..Len(ne) :
             (\A m \in (k + 1)..Len(ne) : FileOf(ne[m]) # FileOf(ne[k]))
                => files[FileOf(ne[k])] = ne[k].data[1]
       /\ \A t \in AttributeTables :
             LET cs == SelectSeq(ne, LAMBDA c : c.item = t)
             IN get_table(database, t) = [k \in 1..Len(cs) |-> cs[k].data[1]]

C4_Witness ==
    /\ Completed
    /\ Len(NonEmptyCalls) = 1
    /\ Len(NonEmptyCalls[1].data) = 2
    /\ files = (ReportFile(reports, NonEmptyCalls[1].project,
                           NonEmptyCalls[1].item) :> "x")
    /\ get_table(database, NonEmptyCalls[1].item) = <<"x">>

\* C5: when run() has returned, every (project, resource type, attribute)
\* fetch of the stored projects has been made, and for every fetch that
\* returned empty data with a client warning and every later fetch that
\* returned data, the warning is in self.warnings and the later fetch's file
\* and row exist.
C5_PartialFailureContinues ==
    Completed =>
        LET refs == RunRefs
        IN /\ [k \in 1..Len(refs) |->
                  <<CallOf(refs[k]).project, CallOf(refs[k]).item>>]
              = ExpectedOrder(projList)
           /\ \A a, b \in 1..Len(refs) :
                 LET early == CallOf(refs[a])
                     late == CallOf(refs[b])
                 IN (a < b /\ early.warned /\ early.data = <<>>
                           /\ late.data # <<>>) =>
                       /\ Warning(refs[a].client, refs[a].call)
                             \in Range(warnings)
                       /\ ReportFile(reports, late.project, late.item)
                             \in DOMAIN files
                       /\ late.data[1]
                             \in Range(get_table(database, late.item))

C5_Witness ==
    /\ Completed
    /\ Len(RunRefs) = 2
    /\ CallOf(RunRefs[1]).warned
    /\ CallOf(RunRefs[1]).data = <<>>
    /\ CallOf(RunRefs[2]).data # <<>>
    /\ Warning(RunRefs[1].client, 1) \in Range(warnings)
    /\ get_table(database, "networks") # <<>>

\* C6 as stated: a project all of whose fetches returned empty leaves the
\* files, the tables and self.warnings as they were when its iteration
\* began.
C6_EmptyProjectLeavesWarnings ==
    (ProjectEnded /\ AllEmpty(ProjectClients)) =>
        /\ files = mark.files
        /\ database = mark.database
        /\ warnings = mark.warnings

\* C6 amended: a fetch that returns empty writes no file, inserts no row and
\* leaves self.warnings alone; a project all of whose fetches returned empty
\* leaves the files and the tables as they were and extends self.warnings by
\* exactly the warnings its clients reported (by nothing when they reported
\* none).
C6_EmptyFetchSkipped ==
    /\ [](ProjectEnded /\ AllEmpty(ProjectClients) =>
            /\ files = mark.files
            /\ database = mark.database
            /\ warnings = mark.warnings
                  \o Flatten([k \in 1..Len(ProjectClients) |->
                                 ProjectClients[k].warnings]))
    /\ [][(fetches' = fetches + 1
              /\ clients'[Len(clients')].calls[
                     Len(clients'[Len(clients')].calls)].data = <<>>)
           => /\ files' = files
              /\ database' = database
              /\ warnings' = warnings]_vars

C6_Witness ==
    /\ ProjectEnded
    /\ AllEmpty(ProjectClients)
    /\ ProjectClients[1].warnings # <<>>
    /\ Len(ProjectClients[1].calls) = 2

\* C7: every step leaves self.warnings a prefix of its new value, and when
\* run() returns self.warnings is the concatenation, in construction order,
\* of the warnings of every client the Reporter has constructed.
C7_WarningsAppendOnly ==
    [][/\ IsPrefix(warnings, warnings')
       /\ pc' = "idle" =>
             warnings' = Flatten([k \in 1..Len(clients') |->
                                     clients'[k].warnings])]_vars

C7_Witness ==
    /\ Completed
    /\ Len(warnings) >= 3
    /\ clients[1].warnings # <<>>

\* C9: when run() has returned it has constructed 1 + |stored projects| *
\* |resource types| clients: one for discovery, then for every stored project
\* one per resource type in configuration order, each used for that project
\* only and for the attribute names of its resource type only, also when the
\* attribute list is empty.
C9_OneClientPerProjectAndType ==
    Completed =>
        /\ Len(clients) - runBase = 1 + Len(projList) * Len(gcp_attributes)
        /\ projList = get_table(database, "projects")
        /\ clients[runBase + 1].resource = "cloudresourcemanager"
        /\ Len(clients[runBase + 1].calls) = 1
        /\ \A i \in 1..Len(projList) : \A r \in 1..Len(gcp_attributes) :
              LET k == runBase + 1 + (i - 1) * Len(gcp_attributes) + r
              IN /\ k <= Len(clients)
                 /\ clients[k].resource = gcp_attributes[r].resource
                 /\ Len(clients[k].calls) = Len(gcp_attributes[r].items)
                 /\ \A j \in 1..Len(clients[k].calls) :
                       /\ clients[k].calls[j].project = projList[i].projectId
                       /\ clients[k].calls[j].item
                             \in Range(gcp_attributes[r].items)
                 /\ Range(clients[k].warnings) \subseteq Range(warnings)

C9_Witness ==
    /\ Completed
    /\ Len(projList) = 2
    /\ Len(clients) - runBase = 5
    /\ clients[Len(clients)].calls = <<>>

====
